---- MODULE Spec2Model ----
(***************************************************************************)
(* A model of zfssync.py: one run of main().  Strings are sequences of     *)
(* one-character strings, so that prefix tests, the specification regex,   *)
(* slicing and lexicographic order are computed as Python computes them.   *)
(***************************************************************************)
EXTENDS Integers, Sequences, FiniteSets, TLC

VARIABLES
    args,           \* the parsed command line (sources, destination, flags)
    env,            \* what `zfs list` prints on each host, and the UTC label
    hostDatasets,   \* Zfspool.hostDatasets
    hostSnapshots,  \* Zfspool.hostSnapshots
    pools,          \* Zfspool.pools
    datasets,       \* ZfsDataset.datasets
    destination,    \* Destination.destination (a key of datasets)
    sources,        \* main's list of Source objects
    cmds,           \* every command handed to shellPopen / shellPipe, in order
    syncs,          \* every call of Destination.sync, in order
    snaps,          \* every call of Destination.createsnapshots, in order
    fails,          \* every ZfssyncException caught by main / zfssync
    pc,             \* position of main: "dest", "sources", "snap", "sync", "done"
    idx,            \* index of the source the current loop is at
    dsi,            \* index into sorted(source.datasets) of the sync loop
    exit,           \* the exit status, -1 while running
    first,          \* what an earlier run of main from the same topology left
    pipe            \* one call of shellPipe: its processes and its polling loop

vars == <<args, env, hostDatasets, hostSnapshots, pools, datasets, destination,
          sources, cmds, syncs, snaps, fails, pc, idx, dsi, exit, first, pipe>>

----------------------------------------------------------------------------
(* Strings *)

localhost == <<"l","o","c","a","l","h","o","s","t">>

Colon == <<":">>
Slash == <<"/">>
At == <<"@">>

\* ord(c) for the characters the model uses
CharCode(c) ==
    CASE c = "*" -> 42 [] c = "/" -> 47 [] c = "1" -> 49 [] c = "2" -> 50
      [] c = "3" -> 51 [] c = ":" -> 58 [] c = "?" -> 63 [] c = "@" -> 64
      [] c = "a" -> 97 [] c = "b" -> 98 [] c = "c" -> 99 [] c = "h" -> 104
      [] c = "l" -> 108 [] c = "o" -> 111 [] c = "p" -> 112 [] c = "s" -> 115
      [] c = "t" -> 116 [] c = "x" -> 120

\* str.__lt__: lexicographic order by code point
RECURSIVE StrLess(_, _)
StrLess(a, b) ==
    IF b = <<>> THEN FALSE
    ELSE IF a = <<>> THEN TRUE
    ELSE IF Head(a) = Head(b) THEN StrLess(Tail(a), Tail(b))
    ELSE CharCode(Head(a)) < CharCode(Head(b))

\* str.startswith
StartsWith(s, p) == Len(p) <= Len(s) /\ SubSeq(s, 1, Len(p)) = p

\* s[n:]
SliceFrom(s, n) == SubSeq(s, n + 1, Len(s))

\* index of the first c in s, 0 when there is none
IndexOf(s, c) ==
    IF \E i \in 1..Len(s) : s[i] = c
    THEN CHOOSE i \in 1..Len(s) : s[i] = c /\ \A j \in 1..(i-1) : s[j] # c
    ELSE 0

\* x in list
InList(x, l) == \E i \in 1..Len(l) : l[i] = x

\* [i for i in l if i.startswith(p)]
RECURSIVE FilterPrefix(_, _)
FilterPrefix(l, p) ==
    IF l = <<>> THEN <<>>
    ELSE IF StartsWith(Head(l), p) THEN <<Head(l)>> \o FilterPrefix(Tail(l), p)
    ELSE FilterPrefix(Tail(l), p)

\* fnmatch.fnmatch on POSIX (case-sensitive): literals, ? and *
RECURSIVE fnmatch(_, _)
fnmatch(s, pat) ==
    IF pat = <<>> THEN s = <<>>
    ELSE IF Head(pat) = "*"
         THEN fnmatch(s, Tail(pat)) \/ (s # <<>> /\ fnmatch(Tail(s), pat))
    ELSE IF s = <<>> THEN FALSE
    ELSE (Head(pat) = "?" \/ Head(pat) = Head(s)) /\ fnmatch(Tail(s), Tail(pat))

EmptyFn == [x \in {} |-> x]

----------------------------------------------------------------------------
(* ZfsDataset.specpattern *)

\* (?P<dataset>(?P<pool>[^/]+)(?P<path>/.*)?)$ against d
DatasetMatches(d) == d # <<>> /\ d[1] # "/"

\* the regex's match object: ok, host (<<>> when the group did not match),
\* pool and path (<<>> when the group did not match)
SpecMatch(spec) ==
    LET c == IndexOf(spec, ":")
        rest == SliceFrom(spec, c)
        withHost == c >= 2 /\ DatasetMatches(rest)
        d == IF withHost THEN rest ELSE spec
        s == IndexOf(d, "/")
    IN  [ok   |-> withHost \/ DatasetMatches(spec),
         host |-> IF withHost THEN SubSeq(spec, 1, c - 1) ELSE <<>>,
         pool |-> IF s = 0 THEN d ELSE SubSeq(d, 1, s - 1),
         path |-> IF s = 0 THEN <<>> ELSE SliceFrom(d, s - 1)]

----------------------------------------------------------------------------
(* The Command Runner: shellPopen, shellGenerator *)

\* Every operation takes the program's mutable state as a record w (hd, hs,
\* pools, datasets: the four registries; cmds: the commands issued so far) and
\* returns a record with the new state w and ok, FALSE when it raised
\* ZfssyncException.

\* dict[k] = v
Put(f, k, v) == [x \in (DOMAIN f) \cup {k} |-> IF x = k THEN v ELSE f[x]]

\* a variant of Executes that forgets the dry-run switch
ExecutesAlways(nosideeffect) == TRUE

\* shellPopen and shellPipe start processes unless "dontexecute and not nosideeffect"
Executes(nosideeffect) == ~(args.notreally /\ ~nosideeffect)

\* one command as handed to shellPopen (kind "list", "listsnap", "snapshot") or
\* to shellPipe (kind "pipe": zfs send -p from snap on host | zfs recv -F recv
\* on host2); launched says whether a process was started, rc is the exit status
CommandRecord(kind, host, from, snap, host2, recv, nosideeffect, launched, rc) ==
    [kind |-> kind, host |-> host, ssh |-> host # localhost,
     incr |-> from # <<>>, from |-> from, snap |-> snap,
     host2 |-> host2, ssh2 |-> host2 # <<>> /\ host2 # localhost,
     recv |-> recv, force |-> kind = "pipe",
     nosideeffect |-> nosideeffect, launched |-> launched,
     rc |-> IF launched THEN rc ELSE 0]

shellPopen(kind, host, snap, nosideeffect, rc) ==
    CommandRecord(kind, host, <<>>, snap, <<>>, <<>>, nosideeffect,
                  Executes(nosideeffect), rc)

\* the lines a listing command prints on a host
HostLines(kind, host) ==
    IF host \notin DOMAIN env.ds THEN <<>>
    ELSE IF kind = "list" THEN env.ds[host] ELSE env.snaps[host]

\* shellGenerator's loop over popen.stdout and its return code, for the process c
shellGeneratorRead(w, kind, host, c) ==
    [ok |-> c.rc = 0,
     lines |-> IF c.launched THEN HostLines(kind, host) ELSE <<>>,
     w |-> [w EXCEPT !.cmds = Append(@, c)]]

\* shellGenerator(host, cmd) consumed by a for loop: the lines collected and
\* whether it raised; a host that does not answer makes ssh exit nonzero
shellGenerator(w, kind, host, rc) ==
    shellGeneratorRead(w, kind, host,
        shellPopen(kind, host, <<>>, TRUE, IF host \in DOMAIN env.ds THEN rc ELSE 1))

----------------------------------------------------------------------------
(* Zfspool *)

Raised(w) == [ok |-> FALSE, w |-> w]
Returned(w) == [ok |-> TRUE, w |-> w]

\* Zfspool.updateHost after the snapshot listing g2
updateHostSnapshots(host, g2) ==
    IF ~g2.ok THEN Raised(g2.w)
    ELSE Returned([g2.w EXCEPT !.hs = Put(@, host, g2.lines)])

\* Zfspool.updateHost after the dataset listing g1
updateHostDatasets(host, o, g1) ==
    IF ~g1.ok THEN Raised(g1.w)
    ELSE updateHostSnapshots(host,
             shellGenerator([g1.w EXCEPT !.hd = Put(@, host, g1.lines)],
                            "listsnap", host, IF o = "fail_snap" THEN 1 ELSE 0))

\* Zfspool.updateHost; o is the outcome of the listing commands:
\* "ok", "fail_ds" (zfs list exits nonzero), "fail_snap" (zfs list -tsnapshot does)
updateHost(w, host, o) ==
    updateHostDatasets(host, o,
        shellGenerator(w, "list", host, IF o = "fail_ds" THEN 1 ELSE 0))

\* the guard of Zfspool.updateDatasets
updateDatasets(w, host, o) ==
    IF host \notin DOMAIN w.hd THEN updateHost(w, host, o) ELSE Returned(w)

\* the guard of Zfspool.updateSnapshots, after updateDatasets gave u
updateSnapshots(u, host, o) ==
    IF ~u.ok THEN u
    ELSE IF host \notin DOMAIN u.w.hs THEN updateHost(u.w, host, o)
    ELSE u

\* the Zfspool object once both lists are cached
ZfspoolObject(name, host, u) ==
    IF ~u.ok THEN Raised(u.w)
    ELSE [ok |-> TRUE, w |-> u.w,
          pool |-> [host |-> host, name |-> name,
                    datasets |-> FilterPrefix(u.w.hd[host], name),
                    snapshots |-> FilterPrefix(u.w.hs[host], name)]]

\* Zfspool.__init__(name, host)
Zfspool(w, name, host, o) ==
    ZfspoolObject(name, host, updateSnapshots(updateDatasets(w, host, o), host, o))

\* "{}:{}".format(host, pool)
HostPool(host, pool) == host \o Colon \o pool

\* Zfspool.pools[hostpool] = Zfspool(pool, host)
getZfsPoolNew(hostpool, z) ==
    IF ~z.ok THEN [ok |-> FALSE, w |-> z.w, pool |-> hostpool]
    ELSE [ok |-> TRUE, w |-> [z.w EXCEPT !.pools = Put(@, hostpool, z.pool)],
          pool |-> hostpool]

getZfsPool(w, host, pool, o) ==
    IF HostPool(host, pool) \in DOMAIN w.pools
    THEN [ok |-> TRUE, w |-> w, pool |-> HostPool(host, pool)]
    ELSE getZfsPoolNew(HostPool(host, pool), Zfspool(w, pool, host, o))

----------------------------------------------------------------------------
(* ZfsDataset *)

\* ZfsDataset.__init__(pool, path); pool is the Zfspool object, key its
\* registry key
ZfsDataset(pool, key, path) ==
    [pool |-> key, host |-> pool.host, name |-> pool.name, path |-> path,
     dataset |-> pool.name \o path,
     snapshots |-> FilterPrefix(pool.snapshots, pool.name \o path \o At)]

\* ZfsDataset.__str__
Str(ds) == ds.host \o Colon \o ds.name \o ds.path

\* no Pool argument
NoPool == <<>>

\* the registry lookup of getZfsDataset, with the pool resolved as g
getZfsDatasetIn(spec, path, g) ==
    IF ~g.ok THEN [ok |-> FALSE, w |-> g.w, key |-> spec]
    ELSE IF spec \in DOMAIN g.w.datasets THEN [ok |-> TRUE, w |-> g.w, key |-> spec]
    ELSE [ok |-> TRUE, key |-> spec,
          w |-> [g.w EXCEPT !.datasets =
                     Put(@, spec, ZfsDataset(g.w.pools[g.pool], g.pool, path))]]

\* getZfsDataset after m = specpattern.match(spec)
getZfsDatasetMatched(w, spec, pool, o, m) ==
    IF ~m.ok THEN [ok |-> FALSE, w |-> w, key |-> spec]
    ELSE IF pool # NoPool /\ m.host # <<>> THEN [ok |-> FALSE, w |-> w, key |-> spec]
    ELSE IF pool # NoPool /\ w.pools[pool].name # m.pool
         THEN [ok |-> FALSE, w |-> w, key |-> spec]
    ELSE getZfsDatasetIn(spec, m.path,
             IF pool # NoPool THEN [ok |-> TRUE, w |-> w, pool |-> pool]
             ELSE getZfsPool(w, IF m.host = <<>> THEN localhost ELSE m.host,
                             m.pool, o))

\* getZfsDataset(spec, pool): the registry key of the dataset, or a raise
getZfsDataset(w, spec, pool, o) ==
    getZfsDatasetMatched(w, spec, pool, o, SpecMatch(spec))

\* sorted(keys) under ZfsDataset.__gt__ / __eq__: ascending str()
RECURSIVE Sorted(_, _)
Sorted(w, keys) ==
    IF keys = {} THEN <<>>
    ELSE LET m == CHOOSE k \in keys : \A j \in keys :
                      ~StrLess(Str(w.datasets[j]), Str(w.datasets[k]))
         IN  <<m>> \o Sorted(w, keys \ {m})

----------------------------------------------------------------------------
(* Source *)

\* set.add under ZfsDataset.__hash__ / __eq__: an equal element is kept
SetAdd(w, set, key) ==
    IF \E k \in set : Str(w.datasets[k]) = Str(w.datasets[key]) THEN set
    ELSE set \cup {key}

\* self.datasets.add(g) for g = getZfsDataset(s, p); r is [ok, w, set]
AddOne(r, g) ==
    IF ~g.ok THEN [ok |-> FALSE, w |-> g.w, set |-> r.set]
    ELSE [ok |-> TRUE, w |-> g.w, set |-> SetAdd(g.w, r.set, g.key)]

\* self.datasets.add(getZfsDataset(s, p)) for each s of names, in order
RECURSIVE AddAll(_, _, _)
AddAll(r, names, pool) ==
    IF names = <<>> \/ ~r.ok THEN r
    ELSE AddAll(AddOne(r, getZfsDataset(r.w, Head(names), pool, "ok")),
                Tail(names), pool)

\* [s for s in l if fnmatch(s, pat)]
RECURSIVE FilterGlob(_, _)
FilterGlob(l, pat) ==
    IF l = <<>> THEN <<>>
    ELSE IF fnmatch(Head(l), pat) THEN <<Head(l)>> \o FilterGlob(Tail(l), pat)
    ELSE FilterGlob(Tail(l), pat)

\* the recursive loop of Source.__init__ over the copy `roots` of the set (the
\* result does not depend on the order in which the copy is walked)
RECURSIVE AddChildren(_, _, _)
AddChildren(r, roots, pool) ==
    IF roots = <<>> \/ ~r.ok THEN r
    ELSE AddChildren(
             AddAll(r, FilterPrefix(r.w.pools[pool].datasets,
                                    r.w.datasets[Head(roots)].dataset \o Slash),
                    pool),
             Tail(roots), pool)

\* a variant of SourceRoots that does not look the root up in the listing
SourceRootsUnchecked(w, spec, glob, root) ==
    IF glob
    THEN AddAll([ok |-> TRUE, w |-> w, set |-> {}],
                FilterGlob(w.pools[root.pool].datasets, root.dataset), root.pool)
    ELSE [ok |-> TRUE, w |-> w, set |-> {spec}]

\* the glob / no-glob branch of Source.__init__ for the root dataset
SourceRoots(w, spec, glob, root) ==
    IF glob
    THEN AddAll([ok |-> TRUE, w |-> w, set |-> {}],
                FilterGlob(w.pools[root.pool].datasets, root.dataset), root.pool)
    ELSE IF ~InList(root.dataset, w.pools[root.pool].datasets)
         THEN [ok |-> FALSE, w |-> w, set |-> {}]
         ELSE [ok |-> TRUE, w |-> w, set |-> {spec}]

\* the Source object, or the raise
SourceObject(spec, r) ==
    IF ~r.ok THEN Raised(r.w)
    ELSE [ok |-> TRUE, w |-> r.w, src |-> [spec |-> spec, datasets |-> r.set]]

\* the "if recursive" branch of Source.__init__
SourceRecursive(spec, pool, recursive, r) ==
    SourceObject(spec, IF recursive /\ r.ok
                       THEN AddChildren(r, Sorted(r.w, r.set), pool)
                       ELSE r)

\* Source.__init__ after self.spec = getZfsDataset(spec) gave g
SourceExpand(spec, glob, recursive, g) ==
    IF ~g.ok THEN Raised(g.w)
    ELSE SourceRecursive(spec, g.w.datasets[spec].pool, recursive,
                         SourceRoots(g.w, spec, glob, g.w.datasets[spec]))

\* Source.__init__(spec, glob, recursive)
Source(w, spec, glob, recursive, o) ==
    SourceExpand(spec, glob, recursive, getZfsDataset(w, spec, NoPool, o))

----------------------------------------------------------------------------
(* Destination *)

\* l[-1]
Last(l) == l[Len(l)]

\* snap[len(dataset)+1:], the identifier of a snapshot full-name
SnapId(snap, dataset) == SliceFrom(snap, Len(dataset) + 1)

\* "{}@{}".format(dataset, id)
SnapName(dataset, id) == dataset \o At \o id

\* a variant of TargetSpec that keeps the source's pool name
TargetSpecSourcePool(dst, ds) == dst.host \o Colon \o ds.name \o ds.path

\* Destination.targetpath(dataset): the spec handed to getZfsDataset
TargetSpec(dst, ds) == dst.host \o Colon \o dst.name \o ds.path

targetpath(w, dest, ds) ==
    getZfsDataset(w, TargetSpec(w.datasets[dest], ds), NoPool, "ok")

\* popen.wait() and the raise of shellExec, for the process c
shellExecWait(w, c) == [ok |-> c.rc = 0, w |-> [w EXCEPT !.cmds = Append(@, c)]]

\* shellExec(host, ['zfs', 'snapshot', s], nosideeffect=False)
shellExec(w, host, s, rc) == shellExecWait(w, shellPopen("snapshot", host, s, FALSE, rc))

RECURSIVE createLoop(_, _, _, _)

\* a variant of createAppend that appends before it looks at the exit status
createAppendAlways(todo, snapshot, failAt, s, e) ==
    IF ~e.ok
    THEN Raised([e.w EXCEPT !.datasets[Head(todo)].snapshots = Append(@, s)])
    ELSE createLoop([e.w EXCEPT !.datasets[Head(todo)].snapshots = Append(@, s)],
                    Tail(todo), snapshot, IF failAt > 0 THEN failAt - 1 ELSE 0)

\* a variant of createAppend that appends only when a process was started
createAppendIfLaunched(todo, snapshot, failAt, s, e) ==
    IF ~e.ok THEN Raised(e.w)
    ELSE createLoop(IF Last(e.w.cmds).launched
                    THEN [e.w EXCEPT !.datasets[Head(todo)].snapshots = Append(@, s)]
                    ELSE e.w,
                    Tail(todo), snapshot, IF failAt > 0 THEN failAt - 1 ELSE 0)

\* srcds.snapshots.append(s) after shellExec gave e, then the next iteration
createAppend(todo, snapshot, failAt, s, e) ==
    IF ~e.ok THEN Raised(e.w)
    ELSE createLoop([e.w EXCEPT !.datasets[Head(todo)].snapshots = Append(@, s)],
                    Tail(todo), snapshot, IF failAt > 0 THEN failAt - 1 ELSE 0)

\* one iteration of the loop of createsnapshots, for srcds and its snapshot name s
createOne(w, todo, snapshot, failAt, srcds, s) ==
    IF InList(s, srcds.snapshots) THEN Returned(w)
    ELSE createAppend(todo, snapshot, failAt, s,
                      shellExec(w, srcds.host, s, IF failAt = 1 THEN 1 ELSE 0))

\* the loop of Destination.createsnapshots over todo = sorted(source.datasets);
\* failAt counts down to the issued command that exits nonzero (0: none does)
createLoop(w, todo, snapshot, failAt) ==
    IF todo = <<>> THEN Returned(w)
    ELSE createOne(w, todo, snapshot, failAt, w.datasets[Head(todo)],
                   SnapName(w.datasets[Head(todo)].dataset, snapshot))

\* Destination.createsnapshots(source, snapshot)
createsnapshots(w, source, snapshot, failAt) ==
    createLoop(w, Sorted(w, source.datasets), snapshot, failAt)

\* a variant of relativesnapshots that takes the destination's first-listed
\* snapshot, dstds.snapshots[0]
relativesnapshotsFirst(srcds, dstds) ==
    IF Len(srcds.snapshots) < 1 THEN [kind |-> "nosrc", id |-> <<>>]
    ELSE IF Len(dstds.snapshots) < 1 THEN [kind |-> "none", id |-> <<>>]
    ELSE IF ~InList(SnapName(srcds.dataset,
                             SnapId(Head(dstds.snapshots), dstds.dataset)),
                    srcds.snapshots)
         THEN [kind |-> "diverged", id |-> SnapId(Head(dstds.snapshots), dstds.dataset)]
    ELSE [kind |-> "id", id |-> SnapId(Head(dstds.snapshots), dstds.dataset)]

\* Destination.relativesnapshots: kind "nosrc" and "diverged" are the two raises,
\* "none" is the return of None, "id" the return of latestDstSnapId
relativesnapshots(srcds, dstds) ==
    IF Len(srcds.snapshots) < 1 THEN [kind |-> "nosrc", id |-> <<>>]
    ELSE IF Len(dstds.snapshots) < 1 THEN [kind |-> "none", id |-> <<>>]
    ELSE IF ~InList(SnapName(srcds.dataset,
                             SnapId(Last(dstds.snapshots), dstds.dataset)),
                    srcds.snapshots)
         THEN [kind |-> "diverged", id |-> SnapId(Last(dstds.snapshots), dstds.dataset)]
    ELSE [kind |-> "id", id |-> SnapId(Last(dstds.snapshots), dstds.dataset)]

DashI == <<"-", "I">>

\* "if startSnapId:" in sync
Truthy(startSnapId) == startSnapId.kind = "id" /\ startSnapId.id # <<>>

\* a variant of InSync that compares against the empty identifier
InSyncEmpty(endSnapId, startSnapId) == endSnapId = <<>>

\* "if endSnapId == startSnapId:" in sync
InSync(endSnapId, startSnapId) == endSnapId = startSnapId

\* startcmd of sync
StartCmd(startSnapId) ==
    IF Truthy(startSnapId) THEN <<DashI, startSnapId.id>> ELSE <<>>

\* the joint wait of shellPipe and its raise, for the pair of processes c
shellPipeWait(w, c) == [ok |-> c.rc = 0, w |-> [w EXCEPT !.cmds = Append(@, c)]]

\* shellPipe(hosta, zfs send -p startcmd endSnap, hostb, zfs recv -F recv,
\* nosideeffect=False); rc is the first nonzero exit status the polling loop
\* sees, 0 when both processes exit 0
shellPipe(w, hosta, startcmd, endSnap, hostb, recv, rc) ==
    shellPipeWait(w, CommandRecord("pipe", hosta, startcmd, endSnap, hostb, recv,
                                   FALSE, Executes(FALSE), rc))

\* what the model records of one call of sync
SyncRecord(src, srcds, dst, dstds, base, outcome) ==
    [src |-> src, srcds |-> srcds, dst |-> dst, dstds |-> dstds,
     base |-> base, outcome |-> outcome]

\* the end of sync, after shellPipe gave sp
syncPiped(rec, sp) ==
    [ok |-> sp.ok, w |-> sp.w,
     rec |-> [rec EXCEPT !.outcome = IF sp.ok THEN "sent" ELSE "failed"]]

\* sync after startSnapId = self.relativesnapshots(srcds, dstds)
syncFrom(w, src, srcds, dst, dstds, startSnapId, rc) ==
    IF startSnapId.kind \in {"nosrc", "diverged"}
    THEN [ok |-> FALSE, w |-> w,
          rec |-> SyncRecord(src, srcds, dst, dstds, startSnapId, "raised")]
    ELSE IF Truthy(startSnapId)
            /\ InSync(SnapId(Last(srcds.snapshots), srcds.dataset), startSnapId.id)
    THEN [ok |-> TRUE, w |-> w,
          rec |-> SyncRecord(src, srcds, dst, dstds, startSnapId, "insync")]
    ELSE syncPiped(SyncRecord(src, srcds, dst, dstds, startSnapId, ""),
                   shellPipe(w, srcds.host, StartCmd(startSnapId),
                             Last(srcds.snapshots), dstds.host, dstds.dataset, rc))

\* sync after dstds = self.targetpath(srcds) gave tp
syncTo(src, srcds, tp, rc) ==
    syncFrom(tp.w, src, srcds, tp.key, tp.w.datasets[tp.key],
             relativesnapshots(srcds, tp.w.datasets[tp.key]), rc)

\* Destination.sync(srcds): the new state and the record of the call
sync(w, dest, src, rc) ==
    syncTo(src, w.datasets[src], targetpath(w, dest, w.datasets[src]), rc)

----------------------------------------------------------------------------
(* The inputs of a run *)

\* the longest list of source specifications
MaxSources == 2

h == <<"h">>
t == <<"t">>
t_a == <<"t", "/", "a">>
t_a_x == <<"t", "/", "a", "/", "x">>
t_ab == <<"t", "/", "a", "b">>
p == <<"p">>
p_a == <<"p", "/", "a">>
p_ab == <<"p", "/", "a", "b">>
id1 == <<"1">>
id2 == <<"2">>

\* source specifications: a local dataset, the same path on a remote host,
\* and a pattern (a dataset that does not exist when glob is off)
SourceSpecs == {t_a, h \o Colon \o t_a, t_a \o <<"*">>}
DestinationSpecs == {p, h \o Colon \o p}

\* the identifier datetime.utcnow().strftime('%Y%m%d%H%M') gives; a snapshot
\* of that name may exist already
Labels == {id2}

\* the snapshot histories of the source t/a and of the destination p/a
SrcHistories == {<<id1>>, <<id1, id2>>}
DstHistories == {<<>>, <<id1>>, <<id1, id2>>}

RECURSIVE SeqsUpTo(_, _)
SeqsUpTo(S, n) ==
    IF n = 0 THEN {<<>>}
    ELSE LET shorter == SeqsUpTo(S, n - 1)
         IN  shorter \cup {Append(q, x) : q \in shorter, x \in S}

\* the snapshot full-names of one dataset with the identifiers hist
SnapLines(dataset, hist) == [i \in 1..Len(hist) |-> SnapName(dataset, hist[i])]

\* what `zfs list -Honame` and `zfs list -tsnapshot -Honame` print on each host:
\* t/ab has no snapshot, t/a/x has one and no counterpart under p
Topology(srcHist, dstHist) ==
    [ds |-> (localhost :> <<p, p_a, p_ab, t, t_a, t_a_x, t_ab>>)
            @@ (h :> <<p, p_a, t, t_a>>),
     snaps |-> (localhost :> SnapLines(p, <<id1>>) \o SnapLines(p_a, dstHist)
                             \o SnapLines(p_ab, <<id1>>)
                             \o SnapLines(t, <<id1>>) \o SnapLines(t_a, srcHist)
                             \o SnapLines(t_a_x, <<id1>>))
            @@ (h :> SnapLines(p_a, <<id1>>) \o SnapLines(t, <<id1>>)
                     \o SnapLines(t_a, <<id2>>))]

\* shellPipe has not been called
NoPipe == [st |-> "idle"]

Init ==
    /\ args \in [sources : SeqsUpTo(SourceSpecs, MaxSources) \ {<<>>},
                 destination : DestinationSpecs,
                 cont : BOOLEAN, glob : BOOLEAN, notreally : BOOLEAN,
                 recursive : BOOLEAN, create : BOOLEAN]
    /\ \E sh \in SrcHistories, dh \in DstHistories, l \in Labels :
           env = [ds |-> Topology(sh, dh).ds, snaps |-> Topology(sh, dh).snaps,
                  label |-> l]
    /\ first = <<>>
    /\ pipe = NoPipe
    /\ hostDatasets = EmptyFn
    /\ hostSnapshots = EmptyFn
    /\ pools = EmptyFn
    /\ datasets = EmptyFn
    /\ destination = <<>>
    /\ sources = <<>>
    /\ cmds = <<>>
    /\ syncs = <<>>
    /\ snaps = <<>>
    /\ fails = <<>>
    /\ pc = "dest"
    /\ idx = 0
    /\ dsi = 0
    /\ exit = -1

----------------------------------------------------------------------------
(* main and zfssync *)

Cur == [hd |-> hostDatasets, hs |-> hostSnapshots, pools |-> pools,
        datasets |-> datasets, cmds |-> cmds]

SetWorld(w) ==
    /\ hostDatasets' = w.hd
    /\ hostSnapshots' = w.hs
    /\ pools' = w.pools
    /\ datasets' = w.datasets
    /\ cmds' = w.cmds

Goto(loc) ==
    /\ pc' = loc.pc
    /\ idx' = loc.idx
    /\ dsi' = loc.dsi
    /\ exit' = loc.exit

\* sys.exit(code)
Done(code) == [pc |-> "done", idx |-> 0, dsi |-> 0, exit |-> code]

\* the outcomes of the listing commands of one pool resolution
ListingOutcomes == {"ok", "fail_ds", "fail_snap"}

\* a variant of SyncFrom that runs the snapshot loop once more after the sync
\* loop, and the sync loop after that
RECURSIVE SyncFromThenSnap(_, _)
SyncFromThenSnap(srcs, i) ==
    IF i > Len(srcs)
    THEN IF args.create /\ srcs # <<>> /\ Len(snaps) <= Len(srcs)
         THEN [pc |-> "snap", idx |-> 1, dsi |-> 0, exit |-> -1]
         ELSE Done(0)
    ELSE IF srcs[i].datasets = {} THEN SyncFromThenSnap(srcs, i + 1)
    ELSE [pc |-> "sync", idx |-> i, dsi |-> 1, exit |-> -1]

\* "for source in sources: for srcds in sorted(source.datasets)" entered at
\* source i: the first dataset to sync, or "return 0" and sys.exit(r)
RECURSIVE SyncFrom(_, _)
SyncFrom(srcs, i) ==
    IF i > Len(srcs) THEN Done(0)
    ELSE IF srcs[i].datasets = {} THEN SyncFrom(srcs, i + 1)
    ELSE [pc |-> "sync", idx |-> i, dsi |-> 1, exit |-> -1]

\* "for s in sources" of the snapshot loop at source i
SnapFrom(srcs, i) ==
    IF i > Len(srcs) THEN SyncFrom(srcs, 1)
    ELSE [pc |-> "snap", idx |-> i, dsi |-> 0, exit |-> -1]

\* the call zfssync(sources, destination, snapshot=args.create, ...)
zfssync(srcs) == IF args.create THEN SnapFrom(srcs, 1) ELSE SyncFrom(srcs, 1)

\* "for s in args.sources" of main at argument i
SourceFrom(srcs, i) ==
    IF i > Len(args.sources) THEN zfssync(srcs)
    ELSE [pc |-> "sources", idx |-> i, dsi |-> 0, exit |-> -1]

\* a variant of OnSourceError that always continues
OnSourceErrorContinue(next) == next

\* except ZfssyncException in main's source loop: continue, or sys.exit(1)
OnSourceError(next) == IF args.cont THEN next ELSE Done(1)

\* except ZfssyncException in zfssync's snapshot loop: continue, or return 1
OnSnapError(next) == IF args.cont THEN next ELSE Done(1)

\* a variant of OnSyncError that always returns 1
OnSyncErrorReturn(next) == Done(1)

\* except ZfssyncException in zfssync's sync loop: continue, or return 1
OnSyncError(next) == IF args.cont THEN next ELSE Done(1)

Failure(step, i, w) == [step |-> step, idx |-> i, at |-> Len(w.cmds)]

\* the assignments of main after Destination(...) gave r
SetDestination(r) ==
    /\ SetWorld(r.w)
    /\ destination' = IF r.ok THEN r.key ELSE destination
    /\ fails' = IF r.ok THEN fails ELSE Append(fails, Failure("dest", 0, r.w))
    /\ Goto(IF r.ok THEN SourceFrom(<<>>, 1) ELSE Done(1))

\* destination = Destination(args.destination[0]); a raise reaches main's
\* outer except and exits 1
ResolveDestination ==
    /\ pc = "dest"
    /\ \E o \in ListingOutcomes :
          SetDestination(getZfsDataset(Cur, args.destination, NoPool, o))
    /\ UNCHANGED <<args, env, sources, syncs, snaps, first, pipe>>

\* sources.append(...) or the except branch, after Source(...) gave r; next is
\* where the loop goes on with the list srcs
AppendSource(r, srcs, next) ==
    /\ SetWorld(r.w)
    /\ sources' = srcs
    /\ fails' = IF r.ok THEN fails ELSE Append(fails, Failure("source", idx, r.w))
    /\ Goto(IF r.ok THEN next ELSE OnSourceError(next))

SourceResolved(r, srcs) == AppendSource(r, srcs, SourceFrom(srcs, idx + 1))

SourceTried(r) == SourceResolved(r, IF r.ok THEN Append(sources, r.src) ELSE sources)

\* one iteration of main's loop: sources.append(Source(s, ...))
ResolveSource ==
    /\ pc = "sources"
    /\ \E o \in ListingOutcomes :
          SourceTried(Source(Cur, args.sources[idx], args.glob, args.recursive, o))
    /\ UNCHANGED <<args, env, destination, syncs, snaps, first, pipe>>

SnapshotsTried(r, next) ==
    /\ SetWorld(r.w)
    /\ snaps' = Append(snaps, [idx |-> idx, ok |-> r.ok,
                               cmd0 |-> Len(cmds), cmd1 |-> Len(r.w.cmds)])
    /\ fails' = IF r.ok THEN fails ELSE Append(fails, Failure("snap", idx, r.w))
    /\ Goto(IF r.ok THEN next ELSE OnSnapError(next))

\* one iteration of zfssync's first loop: destination.createsnapshots(s, snapshot)
CreateSnapshots ==
    /\ pc = "snap"
    /\ \E failAt \in 0..Cardinality(sources[idx].datasets) :
          SnapshotsTried(createsnapshots(Cur, sources[idx], env.label, failAt),
                         SnapFrom(sources, idx + 1))
    /\ UNCHANGED <<args, env, destination, sources, syncs, first, pipe>>

\* the position after dataset j of source i in zfssync's second loop
SyncAfter(srcs, i, j) ==
    IF j < Cardinality(srcs[i].datasets)
    THEN [pc |-> "sync", idx |-> i, dsi |-> j + 1, exit |-> -1]
    ELSE SyncFrom(srcs, i + 1)

SyncTried(r, next) ==
    /\ SetWorld(r.w)
    /\ syncs' = Append(syncs, [idx |-> idx, rec |-> r.rec,
                               cmd0 |-> Len(cmds), cmd1 |-> Len(r.w.cmds)])
    /\ fails' = IF r.ok THEN fails ELSE Append(fails, Failure("sync", idx, r.w))
    /\ Goto(IF r.ok THEN next ELSE OnSyncError(next))

\* one iteration of zfssync's second loop: destination.sync(srcds)
Sync ==
    /\ pc = "sync"
    /\ \E rc \in {0, 1} :
          SyncTried(sync(Cur, destination, Sorted(Cur, sources[idx].datasets)[dsi], rc),
                    SyncAfter(sources, idx, dsi))
    /\ UNCHANGED <<args, env, destination, sources, snaps, first, pipe>>

Next == ResolveDestination \/ ResolveSource \/ CreateSnapshots \/ Sync

Spec == Init /\ [][Next]_vars

----------------------------------------------------------------------------
(* Two runs from the same topology, one of them a dry run *)

\* no command of the list exited nonzero
Succeeded(q) == \A n \in 1..Len(q) : q[n].rc = 0

\* main is run again with the same arguments and the same hosts, the switch -n
\* toggled (dontexecute = args.notreally), after a run in which every command
\* succeeded; what that run issued and left in memory is kept in first
Rerun ==
    /\ pc = "done"
    /\ first = <<>>
    /\ Succeeded(cmds)
    /\ first' = <<[notreally |-> args.notreally, cmds |-> cmds,
                   datasets |-> datasets, exit |-> exit]>>
    /\ args' = [args EXCEPT !.notreally = ~@]
    /\ hostDatasets' = EmptyFn
    /\ hostSnapshots' = EmptyFn
    /\ pools' = EmptyFn
    /\ datasets' = EmptyFn
    /\ destination' = <<>>
    /\ sources' = <<>>
    /\ cmds' = <<>>
    /\ syncs' = <<>>
    /\ snaps' = <<>>
    /\ fails' = <<>>
    /\ pc' = "dest"
    /\ idx' = 0
    /\ dsi' = 0
    /\ exit' = -1
    /\ UNCHANGED <<env, pipe>>

TwinNext == Next \/ Rerun

TwinSpec == Init /\ [][TwinNext]_vars

----------------------------------------------------------------------------
(* One call of shellPipe: the two processes and the polling loop *)

\* pa (the sender) and pb (the receiver)
Legs == {"a", "b"}

\* the exit statuses a process may end with
ExitCodes == {0, 1}

\* the rest of the program's state, which shellPipe does not touch
mainVars == <<args, env, hostDatasets, hostSnapshots, pools, datasets, destination,
              sources, cmds, syncs, snaps, fails, pc, idx, dsi, exit, first>>

\* the entry of shellPipe(hosta, cmda, hostb, cmdb, nosideeffect), looked at on
\* its own: the rest of the state is as at the start of main
PipeInit ==
    /\ args \in [sources : {<<t_a>>}, destination : {p}, cont : {FALSE},
                 glob : {FALSE}, notreally : BOOLEAN, recursive : {FALSE},
                 create : {FALSE}]
    /\ env = [ds |-> Topology(<<id1>>, <<>>).ds,
              snaps |-> Topology(<<id1>>, <<>>).snaps, label |-> id2]
    /\ first = <<>>
    /\ \E ha \in {localhost, h}, hb \in {localhost, h}, nse \in BOOLEAN :
           pipe = [st |-> "call", hosta |-> ha, hostb |-> hb, nosideeffect |-> nse,
                   ssha |-> FALSE, sshb |-> FALSE,
                   proc |-> [l \in Legs |-> "none"], rc |-> [l \in Legs |-> 0],
                   waiting |-> <<>>, i |-> 0, tick |-> 0, last |-> "",
                   seen |-> <<>>, term |-> {}]
    /\ hostDatasets = EmptyFn
    /\ hostSnapshots = EmptyFn
    /\ pools = EmptyFn
    /\ datasets = EmptyFn
    /\ destination = <<>>
    /\ sources = <<>>
    /\ cmds = <<>>
    /\ syncs = <<>>
    /\ snaps = <<>>
    /\ fails = <<>>
    /\ pc = "dest"
    /\ idx = 0
    /\ dsi = 0
    /\ exit = -1

\* the ssh prefixes, the dry-run return, and the two Popen calls
PipeStart ==
    /\ pipe.st = "call"
    /\ pipe' = IF Executes(pipe.nosideeffect)
               THEN [pipe EXCEPT !.st = "poll",
                                 !.ssha = pipe.hosta # localhost,
                                 !.sshb = pipe.hostb # localhost,
                                 !.proc = [l \in Legs |-> "running"],
                                 !.waiting = <<"a", "b">>,
                                 !.i = 1]
               ELSE [pipe EXCEPT !.st = "returned",
                                 !.ssha = pipe.hosta # localhost,
                                 !.sshb = pipe.hostb # localhost]
    /\ UNCHANGED mainVars

\* a running process exits, at any time, with any status
ProcessExits ==
    /\ pipe.st \notin {"idle", "call"}
    /\ \E l \in Legs, rc \in ExitCodes :
          /\ pipe.proc[l] = "running"
          /\ pipe' = [pipe EXCEPT !.proc[l] = "exited", !.rc[l] = rc]
    /\ UNCHANGED mainVars

\* list.remove(x): the list without its first x
RECURSIVE Remove(_, _)
Remove(l, x) ==
    IF l = <<>> THEN <<>>
    ELSE IF Head(l) = x THEN Tail(l)
    ELSE <<Head(l)>> \o Remove(Tail(l), x)

\* a variant of Terminate that signals nobody
TerminateNone(rest) == {}

\* "for pk in waiting: pk.terminate()": the processes that are signalled
Terminate(rest) == {rest[k] : k \in DOMAIN rest}

\* a variant of NextIndex that stays on the element
NextIndexStuck(i) == i

\* the list iterator of "for p in waiting" moves on by one position, whatever
\* happened to the list
NextIndex(i) == i + 1

\* p.wait(1) raises TimeoutExpired: continue
PollTimeout ==
    /\ pipe.st = "poll"
    /\ pipe.i <= Len(pipe.waiting)
    /\ pipe.proc[pipe.waiting[pipe.i]] = "running"
    /\ pipe' = [pipe EXCEPT !.i = NextIndex(@), !.tick = 1 - @,
                            !.last = pipe.waiting[pipe.i]]
    /\ UNCHANGED mainVars

\* the state after p.wait(1) returned for p: p is removed, and when its status
\* is nonzero the processes left in waiting are terminated and shellPipe raises
Observed(q, leg, rest) ==
    [q EXCEPT !.i = NextIndex(@), !.tick = 1 - @, !.last = leg,
              !.waiting = rest,
              !.seen = Append(@, leg),
              !.term = IF q.rc[leg] # 0 THEN Terminate(rest) ELSE @,
              !.st = IF q.rc[leg] # 0 THEN "raised" ELSE @]

\* p.wait(1) returns
PollExited ==
    /\ pipe.st = "poll"
    /\ pipe.i <= Len(pipe.waiting)
    /\ pipe.proc[pipe.waiting[pipe.i]] = "exited"
    /\ pipe' = Observed(pipe, pipe.waiting[pipe.i],
                        Remove(pipe.waiting, pipe.waiting[pipe.i]))
    /\ UNCHANGED mainVars

\* the for loop is exhausted: "while len(waiting) > 0" starts it again, or
\* shellPipe returns
LoopAgain ==
    /\ pipe.st = "poll"
    /\ pipe.i > Len(pipe.waiting)
    /\ pipe' = IF Len(pipe.waiting) > 0 THEN [pipe EXCEPT !.i = 1]
               ELSE [pipe EXCEPT !.st = "returned"]
    /\ UNCHANGED mainVars

\* the steps of the program's one thread
PipeStep == PipeStart \/ PollTimeout \/ PollExited \/ LoopAgain

PipeNext == PipeStart \/ ProcessExits \/ PollTimeout \/ PollExited \/ LoopAgain

\* the thread keeps running: every p.wait(1) comes back within a second
PipeSpec == PipeInit /\ [][PipeNext]_vars /\ WF_vars(PipeStep)

----------------------------------------------------------------------------
(* Vocabulary of the properties *)

\* the identifier of a snapshot full-name: what follows its "@"
IdOf(snap) == SliceFrom(snap, IndexOf(snap, "@"))

\* the dataset of a snapshot full-name: what precedes its "@"
DatasetOf(snap) == SubSeq(snap, 1, IndexOf(snap, "@") - 1)

\* some snapshot of the history carries the identifier
HasId(history, id) == \E i \in 1..Len(history) : IdOf(history[i]) = id

LastId(history) == IdOf(history[Len(history)])

\* the commands one recorded call issued
Issued(call) == SubSeq(cmds, call.cmd0 + 1, call.cmd1)

IsTransfer(c) == c.kind = "pipe"
IsSnapshot(c) == c.kind = "snapshot"
IsListing(c) == c.kind \in {"list", "listsnap"}

\* the histories a recorded call of sync saw
SrcOf(call) == call.rec.srcds.snapshots
DstOf(call) == call.rec.dstds.snapshots

\* C1 as stated: relativesnapshots returns None iff the destination has no
\* snapshot, raises the divergence error iff no source snapshot carries the
\* identifier of the destination's last snapshot, and otherwise returns that
\* identifier.
C1_BaselineAsStated ==
    \A n \in 1..Len(syncs) :
        LET base == syncs[n].rec.base
            src == SrcOf(syncs[n])
            dst == DstOf(syncs[n])
        IN  /\ base.kind = "none" <=> dst = <<>>
            /\ base.kind = "diverged" <=> (dst # <<>> /\ ~HasId(src, LastId(dst)))
            /\ base.kind \notin {"none", "diverged"}
                  => base.kind = "id" /\ base.id = LastId(dst)

\* C1, amended: for a source with no snapshot relativesnapshots raises the
\* "need at least one snapshot" error whatever the destination holds; for a
\* source with at least one snapshot it returns None iff the destination has no
\* snapshot, raises the divergence error iff no source snapshot carries the
\* identifier of the destination's last snapshot, and otherwise returns that
\* identifier.
C1_Baseline ==
    \A n \in 1..Len(syncs) :
        LET base == syncs[n].rec.base
            src == SrcOf(syncs[n])
            dst == DstOf(syncs[n])
        IN  IF src = <<>> THEN base.kind = "nosrc"
            ELSE /\ base.kind = "none" <=> dst = <<>>
                 /\ base.kind = "diverged" <=> (dst # <<>> /\ ~HasId(src, LastId(dst)))
                 /\ base.kind \notin {"none", "diverged"}
                       => base.kind = "id" /\ base.id = LastId(dst)

\* one run computed a baseline for an empty destination, for a diverged one,
\* and for a destination whose two-snapshot history ends in a shared identifier
C1_Witness ==
    /\ \E n \in 1..Len(syncs) : syncs[n].rec.base.kind = "none"
    /\ \E n \in 1..Len(syncs) :
          syncs[n].rec.base.kind = "diverged" /\ Len(DstOf(syncs[n])) = 2
    /\ \E n \in 1..Len(syncs) : syncs[n].rec.base.kind = "nosrc"

\* sync returned normally and handed no transfer to shellPipe
NoOp(call) == call.rec.outcome \notin {"raised", "failed"} /\ call.cmd1 = call.cmd0

\* C2: sync returns without handing a transfer command to the runner and
\* without raising iff the identifier of the source's last snapshot equals the
\* identifier of the mapped destination's last snapshot.
C2_NoOpIffSameLatest ==
    \A n \in 1..Len(syncs) :
        NoOp(syncs[n]) <=> /\ SrcOf(syncs[n]) # <<>>
                           /\ DstOf(syncs[n]) # <<>>
                           /\ LastId(SrcOf(syncs[n])) = LastId(DstOf(syncs[n]))

\* a sync that was a no-op on two-snapshot histories, and one that was not
C2_Witness ==
    /\ \E n \in 1..Len(syncs) : NoOp(syncs[n]) /\ Len(SrcOf(syncs[n])) = 2
    /\ \E n \in 1..Len(syncs) : syncs[n].rec.outcome = "sent"

\* the receiving side the claim names: a forced receive on the destination's
\* host into <destination pool><source path>
ReceivesInto(c, call) ==
    /\ c.force
    /\ c.host2 = datasets[destination].host
    /\ c.recv = datasets[destination].name \o call.rec.srcds.path

\* C3: the transfer sync issues is determined by the two histories: none when
\* the source has no snapshot or the histories diverge; one full send of the
\* source's last snapshot when the destination has none; one incremental send
\* from the destination's last identifier to the source's last snapshot when
\* that identifier exists in the source and differs from the source's last; the
\* receive is forced, on the destination's host, into the destination pool at
\* the source's path.
C3_TransferPlan ==
    \A n \in 1..Len(syncs) :
        LET src == SrcOf(syncs[n])
            dst == DstOf(syncs[n])
            out == Issued(syncs[n])
        IN  IF src = <<>> \/ (dst # <<>> /\ ~HasId(src, LastId(dst)))
            THEN out = <<>>
            ELSE IF dst = <<>>
            THEN /\ Len(out) = 1 /\ IsTransfer(out[1])
                 /\ ~out[1].incr /\ out[1].from = <<>>
                 /\ out[1].snap = src[Len(src)]
                 /\ out[1].host = syncs[n].rec.srcds.host
                 /\ ReceivesInto(out[1], syncs[n])
            ELSE LastId(dst) # LastId(src)
                 => /\ Len(out) = 1 /\ IsTransfer(out[1])
                    /\ out[1].incr /\ out[1].from = <<DashI, LastId(dst)>>
                    /\ out[1].snap = src[Len(src)]
                    /\ out[1].host = syncs[n].rec.srcds.host
                    /\ ReceivesInto(out[1], syncs[n])

\* one run issued a full send and an incremental send
C3_Witness ==
    /\ \E n \in 1..Len(cmds) : IsTransfer(cmds[n]) /\ cmds[n].incr
    /\ \E n \in 1..Len(cmds) : IsTransfer(cmds[n]) /\ ~cmds[n].incr

\* C4 as stated: the exit status is 0 iff every attempted step (destination
\* and source resolution, snapshot creation, dataset sync) succeeded, also
\* under the continue-on-error policy.
C4_ExitStatus == pc = "done" => (exit = 0 <=> fails = <<>>)

\* <dataset>@<label> of a dataset of the registry
LabelSnap(key) == SnapName(datasets[key].dataset, env.label)

\* no snapshot-creation command of the run exited nonzero
NoSnapshotFailed == \A n \in 1..Len(cmds) : IsSnapshot(cmds[n]) => cmds[n].rc = 0

\* C5 as stated: when no snapshot-creation command fails, after
\* createsnapshots has run for a source set every dataset of the set has
\* <dataset>@<label> in its snapshot list, whatever the lists held before.
C5_AllSnapshotted ==
    NoSnapshotFailed =>
        \A n \in 1..Len(snaps) : \A key \in sources[snaps[n].idx].datasets :
            InList(LabelSnap(key), datasets[key].snapshots)

\* the number of entries of l equal to x
Count(l, x) == Cardinality({i \in 1..Len(l) : l[i] = x})

\* the snapshot-creation commands issued for a dataset of the registry
CreationsOf(key) ==
    {n \in 1..Len(cmds) : /\ IsSnapshot(cmds[n])
                          /\ cmds[n].host = datasets[key].host
                          /\ cmds[n].snap = LabelSnap(key)}

\* the host listed <dataset>@<label> before the run
HadLabel(key) == InList(LabelSnap(key), HostLines("listsnap", datasets[key].host))

\* C6 as stated: for every dataset (that had no snapshot of that label), once
\* snapshot creation has run twice with the same label over it and no creation
\* command failed, its list holds <dataset>@<label> exactly once and the
\* creation command was issued for it exactly once.
C6_SnapshotIdempotent ==
    NoSnapshotFailed =>
        \A m, n \in 1..Len(snaps) :
            m < n => \A key \in sources[snaps[m].idx].datasets
                                    \cap sources[snaps[n].idx].datasets :
                        ~HadLabel(key) =>
                            /\ Count(datasets[key].snapshots, LabelSnap(key)) = 1
                            /\ Cardinality(CreationsOf(key)) = 1

\* C7 as stated: in one run at most one transfer command is issued for any
\* source dataset (host, pool, path).
C7_OneTransferPerDataset ==
    \A m, n \in 1..Len(cmds) :
        (m < n /\ IsTransfer(cmds[m]) /\ IsTransfer(cmds[n]))
            => ~(/\ cmds[m].host = cmds[n].host
                 /\ DatasetOf(cmds[m].snap) = DatasetOf(cmds[n].snap))

\* sorted(source.datasets) of each resolved source set, one after the other
RECURSIVE SyncOrder(_)
SyncOrder(n) ==
    IF n = 0 THEN <<>>
    ELSE SyncOrder(n - 1) \o Sorted(Cur, sources[n].datasets)

\* the datasets sync was called for, in the order of the calls
Synced == [n \in 1..Len(syncs) |-> syncs[n].rec.src]

\* the number of sync calls zfssync's second loop has behind it at (i, j)
RECURSIVE SyncsBefore(_, _)
SyncsBefore(i, j) ==
    IF i <= 1 THEN j
    ELSE Cardinality(sources[i - 1].datasets) + SyncsBefore(i - 1, j)

\* how far main has come: every step of the run moves it forward
Position ==
    CASE pc = "dest" -> 0
      [] pc = "sources" -> idx
      [] pc = "snap" -> Len(args.sources) + idx
      [] pc = "sync" -> 2 * Len(args.sources) + SyncsBefore(idx, dsi)
      [] pc = "done" -> 2 * Len(args.sources) + SyncsBefore(Len(sources) + 1, 0) + 1

\* main stands at an iteration of one of its loops: the guard of an action holds
AtStep ==
    \/ pc = "dest"
    \/ pc = "sources" /\ idx \in 1..Len(args.sources)
    \/ pc = "snap" /\ idx \in 1..Len(sources)
    \/ pc = "sync" /\ idx \in 1..Len(sources)
                   /\ dsi \in 1..Cardinality(sources[idx].datasets)

C9_AbortOnFirstFailure ==
    (~args.cont /\ fails # <<>>) =>
        /\ pc = "done" /\ exit = 1
        /\ Len(fails) = 1
        /\ \A n \in 1..Len(cmds) :
              n > fails[1].at => ~(IsSnapshot(cmds[n]) \/ IsTransfer(cmds[n]))

\* an aborted run that left a source specification unresolved
C9_Witness ==
    /\ ~args.cont /\ pc = "done"
    /\ fails # <<>> /\ fails[1].step = "source"
    /\ fails[1].idx < Len(args.sources)

\* C10: in dry-run mode no snapshot-creation process and no send/receive
\* process is started, while every listing command is executed.
C10_DryRun ==
    args.notreally =>
        \A n \in 1..Len(cmds) :
            /\ (IsSnapshot(cmds[n]) \/ IsTransfer(cmds[n])) => ~cmds[n].launched
            /\ IsListing(cmds[n]) => cmds[n].launched

\* a dry run that listed a host and planned a snapshot and a transfer
C10_Witness ==
    /\ args.notreally
    /\ \E n \in 1..Len(cmds) : IsListing(cmds[n])
    /\ \E n \in 1..Len(cmds) : IsSnapshot(cmds[n])
    /\ \E n \in 1..Len(cmds) : IsTransfer(cmds[n])

\* host:dataset of the snapshot a creation command names
CreatedOn(c) == c.host \o Colon \o DatasetOf(c.snap)

\* C11 as stated: over the whole run the datasets for which a snapshot-creation
\* command is issued, and the datasets sync is called for, each come in
\* ascending lexicographic order of host:pool/path.
C11_AscendingOrder ==
    /\ \A m, n \in 1..Len(syncs) :
          m < n => ~StrLess(Str(syncs[n].rec.srcds), Str(syncs[m].rec.srcds))
    /\ \A m, n \in 1..Len(cmds) :
          (m < n /\ IsSnapshot(cmds[m]) /\ IsSnapshot(cmds[n]))
              => ~StrLess(CreatedOn(cmds[n]), CreatedOn(cmds[m]))

\* C12: every snapshot-creation command of a run is issued before its first
\* transfer command, and once a transfer command has been issued the run is in
\* (or past) the sync loop.
C12_SnapshotsBeforeTransfers ==
    /\ \A m, n \in 1..Len(cmds) : (m < n /\ IsTransfer(cmds[m])) => ~IsSnapshot(cmds[n])
    /\ (\E n \in 1..Len(cmds) : IsTransfer(cmds[n])) => pc \in {"sync", "done"}

\* a run under continue-on-error with two source sets in which a creation
\* command failed, a later one went through, and transfers followed
C12_Witness ==
    /\ args.create /\ Len(sources) = 2 /\ pc = "done"
    /\ \E k, m, n \in 1..Len(cmds) :
          /\ k < m /\ m < n
          /\ IsSnapshot(cmds[k]) /\ cmds[k].rc # 0
          /\ IsSnapshot(cmds[m]) /\ cmds[m].rc = 0
          /\ IsTransfer(cmds[n])

\* C13 as stated: once a listing command has succeeded on a host (its list is
\* cached), the same listing command is not issued on that host again.
C13_ListedOncePerHost ==
    \A m, n \in 1..Len(cmds) :
        (m < n /\ IsListing(cmds[m]) /\ cmds[m].rc = 0)
            => ~(cmds[n].kind = cmds[m].kind /\ cmds[n].host = cmds[m].host)

\* what a source specification names: its host, and its dataset full-name
HostOfSpec(spec) ==
    IF SpecMatch(spec).host = <<>> THEN localhost ELSE SpecMatch(spec).host
RootOfSpec(spec) == SpecMatch(spec).pool \o SpecMatch(spec).path

\* the dataset listing of the pool a specification names, as the host prints it
PoolListing(spec) ==
    {env.ds[HostOfSpec(spec)][i] : i \in
        {j \in 1..Len(env.ds[HostOfSpec(spec)]) :
            StartsWith(env.ds[HostOfSpec(spec)][j], SpecMatch(spec).pool)}}

RootListed(spec) == RootOfSpec(spec) \in PoolListing(spec)

\* the root and, when recursive, its strict descendants in the pool
Expansion(spec) ==
    {RootOfSpec(spec)} \cup
    (IF args.recursive
     THEN {s \in PoolListing(spec) : StartsWith(s, RootOfSpec(spec) \o Slash)}
     ELSE {})

\* the full-names of the datasets of a resolved source set
NamesOf(source) == {datasets[k].dataset : k \in source.datasets}

\* the n-th caught failure came from a listing command that exited nonzero
ListingFailed(n) ==
    /\ fails[n].at > 0
    /\ IsListing(cmds[fails[n].at]) /\ cmds[fails[n].at].rc # 0
    /\ n > 1 => fails[n - 1].at < fails[n].at

\* C14: with glob disabled a source specification whose root is not in its
\* pool's listing fails to resolve and yields no set; otherwise the set holds
\* exactly the root, and with recursive on in addition exactly the pool's
\* datasets whose full-name begins with the root's full-name and a slash.
C14_ExpansionWithoutGlob ==
    ~args.glob =>
        /\ \A n \in 1..Len(sources) :
              /\ RootListed(sources[n].spec)
              /\ NamesOf(sources[n]) = Expansion(sources[n].spec)
              /\ Cardinality(sources[n].datasets) = Cardinality(Expansion(sources[n].spec))
        /\ \A n \in 1..Len(fails) :
              (fails[n].step = "source" /\ ~ListingFailed(n))
                  => ~RootListed(args.sources[fails[n].idx])
        /\ args.cont /\ pc \notin {"dest", "sources"} /\ destination # <<>> =>
              Len(sources) + Cardinality({n \in 1..Len(fails) : fails[n].step = "source"})
                  = Len(args.sources)

\* without glob: a recursive set that took the child t/a/x and left the sibling
\* t/ab out, and a root that is not listed and failed to resolve
C14_Witness ==
    /\ ~args.glob /\ args.recursive
    /\ \E n \in 1..Len(sources) : NamesOf(sources[n]) = {t_a, t_a_x}
    /\ \E n \in 1..Len(fails) : fails[n].step = "source" /\ ~ListingFailed(n)

\* C18 as stated: every dataset of a resolved source set is bound to the host
\* and pool that the set's root specification names.
C18_BoundToRootPool ==
    \A n \in 1..Len(sources) : \A k \in sources[n].datasets :
        /\ datasets[k].host = HostOfSpec(sources[n].spec)
        /\ datasets[k].name = SpecMatch(sources[n].spec).pool

\* the source dataset a transfer command sends: host:dataset
SentFrom(c) == c.host \o Colon \o DatasetOf(c.snap)

\* C19 as stated: no two transfer commands of a run with different source
\* datasets receive into the same dataset of the same host.
C19_OneSourcePerTarget ==
    \A m, n \in 1..Len(cmds) :
        (/\ m < n /\ IsTransfer(cmds[m]) /\ IsTransfer(cmds[n])
         /\ cmds[m].host2 = cmds[n].host2 /\ cmds[m].recv = cmds[n].recv)
            => SentFrom(cmds[m]) = SentFrom(cmds[n])

\* the snapshot was in the host's listing, or a creation command for it was
\* issued on the host and did not exit nonzero
Existed(host, s) == InList(s, HostLines("listsnap", host))
Created(host, s) ==
    \E n \in 1..Len(cmds) :
        IsSnapshot(cmds[n]) /\ cmds[n].host = host /\ cmds[n].snap = s /\ cmds[n].rc = 0

\* C20: a creation command that exits nonzero adds nothing to any snapshot
\* list: every entry of every in-memory list was listed by the host or has a
\* creation command that did not fail, and every transfer names the last entry
\* of the list its sync call saw, an entry of that kind.
C20_FailedSnapshotNotRecorded ==
    /\ \A key \in DOMAIN datasets : \A i \in 1..Len(datasets[key].snapshots) :
          \/ Existed(datasets[key].host, datasets[key].snapshots[i])
          \/ Created(datasets[key].host, datasets[key].snapshots[i])
    /\ \A n \in 1..Len(syncs) : \A i \in 1..Len(Issued(syncs[n])) :
          /\ Issued(syncs[n])[i].snap = Last(SrcOf(syncs[n]))
          /\ \/ Existed(Issued(syncs[n])[i].host, Issued(syncs[n])[i].snap)
             \/ Created(Issued(syncs[n])[i].host, Issued(syncs[n])[i].snap)

\* under continue-on-error the creation of a snapshot failed and a later
\* transfer of the same dataset sent its previous last snapshot
C20_Witness ==
    /\ args.cont
    /\ \E k, n \in 1..Len(cmds) :
          /\ k < n
          /\ IsSnapshot(cmds[k]) /\ cmds[k].rc # 0
          /\ IsTransfer(cmds[n]) /\ cmds[n].host = cmds[k].host
          /\ DatasetOf(cmds[n].snap) = DatasetOf(cmds[k].snap)
          /\ cmds[n].snap # cmds[k].snap
          /\ ~Created(cmds[k].host, cmds[k].snap)

\* a snapshot-creation or transfer command
HasSideEffect(c) == IsSnapshot(c) \/ IsTransfer(c)

\* the snapshot-creation and transfer commands of a list, in order, as logged:
\* whether a process was started for them is left out
Plan(q) ==
    [n \in 1..Len(SelectSeq(q, HasSideEffect)) |->
        [SelectSeq(q, HasSideEffect)[n] EXCEPT !.launched = FALSE]]

\* the in-memory snapshot list of every dataset of a registry
SnapshotLists(reg) == [k \in DOMAIN reg |-> reg[k].snapshots]

\* C17: of two runs from the same topology and arguments in which every
\* command succeeded, one a dry run and one not, both hand the same sequence of
\* snapshot-creation and transfer commands to the runner (the dry run starting
\* none of them, the other all) and end with the same in-memory snapshot lists
\* and the same exit status.
C17_SamePlan ==
    (first # <<>> /\ pc = "done" /\ Succeeded(cmds)) =>
        /\ first[1].notreally # args.notreally
        /\ Plan(first[1].cmds) = Plan(cmds)
        /\ \A n \in 1..Len(cmds) :
              HasSideEffect(cmds[n]) => (cmds[n].launched <=> ~args.notreally)
        /\ \A n \in 1..Len(first[1].cmds) :
              HasSideEffect(first[1].cmds[n])
                  => (first[1].cmds[n].launched <=> args.notreally)
        /\ SnapshotLists(first[1].datasets) = SnapshotLists(datasets)
        /\ first[1].exit = exit

\* a dry run and a real run that both planned a snapshot creation and an
\* incremental transfer of the new snapshot
C17_Witness ==
    /\ first # <<>> /\ pc = "done" /\ Succeeded(cmds)
    /\ args.notreally
    /\ \E m, n \in 1..Len(cmds) :
          /\ m < n /\ IsSnapshot(cmds[m]) /\ IsTransfer(cmds[n])
          /\ cmds[n].incr /\ cmds[n].snap = cmds[m].snap

\* the legs shellPipe has seen exit
SeenSet == {pipe.seen[k] : k \in DOMAIN pipe.seen}

\* C15: shellPipe has raised iff it has seen one of the two processes exit
\* with a nonzero status; when it raises, every process it has not seen exit has
\* been sent terminate (and none is sent terminate otherwise); and once it has
\* started the two processes it returns only after it has seen both exit with
\* status 0.
C15_PipeOutcome ==
    /\ pipe.st = "raised" <=> \E l \in SeenSet : pipe.rc[l] # 0
    /\ pipe.st = "raised" => \A l \in Legs \ SeenSet : l \in pipe.term
    /\ pipe.st # "raised" => pipe.term = {}
    /\ (pipe.st = "returned" /\ pipe.proc["a"] # "none") =>
          /\ SeenSet = Legs
          /\ \A l \in Legs : pipe.proc[l] = "exited" /\ pipe.rc[l] = 0

\* the receiver failed while the sender was still running: shellPipe raised
\* and terminated the sender
C15_Witness ==
    /\ pipe.st = "raised"
    /\ pipe.seen = <<"b">> /\ pipe.rc["b"] # 0
    /\ pipe.proc["a"] = "running" /\ pipe.term = {"a"}

\* C16: once both processes have exited shellPipe returns or raises, and it
\* never polls a process twice in a row while it still waits for the other.
C16_PollingTerminates ==
    /\ (pipe.proc["a"] = "exited" /\ pipe.proc["b"] = "exited")
          ~> (pipe.st \in {"returned", "raised"})
    /\ [][(pipe'.tick # pipe.tick /\ pipe.last # "" /\ pipe'.last = pipe.last)
             => \A k \in DOMAIN pipe.waiting : pipe.waiting[k] = pipe.last]_vars

\* shellPipe returned after the receiver was seen to exit before the sender:
\* the list was changed under the iterator, and the sender polled again
C16_Witness ==
    /\ pipe.st = "returned"
    /\ pipe.seen = <<"b", "a">>

====
